---- MODULE Spec2Model ----
(***************************************************************************)
(* The username-existence cache of red2n/credentials: UsernameBloomFilter  *)
(* (a bloom-filters BloomFilter kept beside two Redis keys), the           *)
(* InMemoryUserDB it fronts, and the HTTP routes and the register page     *)
(* that use them.                                                          *)
(*                                                                         *)
(* Strings are sequences of one-character strings, so that toLowerCase and *)
(* trim are computed character by character.  Every async method is cut    *)
(* at its awaits: a call in flight sits in a slot of `calls` with the pc   *)
(* of the Redis command it is waiting for; one step executes that command  *)
(* and the synchronous code up to the next await.                          *)
(***************************************************************************)
EXTENDS Integers, Sequences, FiniteSets, TLC

\* ------------------------------------------------------------------ bounds
MaxCalls == 2      \* method calls of the cache in flight at the same time
MaxSamples == 2    \* how many of the sample usernames the seeding loop adds
MaxReg == 2        \* 201 answers followed up per lower-cased name

\* ----------------------------------------------------------------- strings
upperCase == <<"A","B","C","D","E","F","G","H","I","J","K","L","M",
               "N","O","P","Q","R","S","T","U","V","W","X","Y","Z">>
lowerCase == <<"a","b","c","d","e","f","g","h","i","j","k","l","m",
               "n","o","p","q","r","s","t","u","v","w","x","y","z">>
digitChars == <<"0","1","2","3","4","5","6","7","8","9">>

IndexOf(c, seq) ==
    IF \E i \in 1..Len(seq) : seq[i] = c
    THEN CHOOSE i \in 1..Len(seq) : seq[i] = c
    ELSE 0

toLowerCaseChar(c) ==
    LET i == IndexOf(c, upperCase) IN IF i > 0 THEN lowerCase[i] ELSE c

\* String.prototype.toLowerCase
toLowerCase(s) == [i \in 1..Len(s) |-> toLowerCaseChar(s[i])]

RECURSIVE trimStart(_)
trimStart(s) == IF s # <<>> /\ Head(s) = " " THEN trimStart(Tail(s)) ELSE s

RECURSIVE trimEnd(_)
trimEnd(s) ==
    IF s # <<>> /\ s[Len(s)] = " " THEN trimEnd(SubSeq(s, 1, Len(s) - 1)) ELSE s

\* String.prototype.trim
trim(s) == trimEnd(trimStart(s))

\* the UTF-16 code unit of a character (letters, digits, space)
charCode(c) ==
    LET u == IndexOf(c, upperCase)
        l == IndexOf(c, lowerCase)
        d == IndexOf(c, digitChars)
    IN  IF u > 0 THEN 64 + u
        ELSE IF l > 0 THEN 96 + l
        ELSE IF d > 0 THEN 47 + d
        ELSE 32

\* -------------------------------------------------------------- the inputs
zed == <<"z","e","d">>
Zed == <<"Z","e","d">>
zedPadded == <<" ","z","e","d"," ">>
blank == <<" ">>
ze == <<"z","e">>

\* the usernames callers pass in
amy == <<"a","m","y">>
RawNames == {zed, Zed, amy}

\* names InMemoryUserDB.initialize can generate: prefix + number, adjective + noun
user1 == <<"u","s","e","r","1">>
GeneratedNames == {user1}

\* the bodies of POST /username/add, what is typed into the register page, and
\* the bodies of POST /auth/register
AddBodies == {zedPadded, blank}
TypedNames == {zed, Zed, ze}
RegisterNames == {zed, Zed, user1, ze}
secret == <<"s","e","c","r","e","t">>
hunter == <<"h","u","n","t","e","r">>
Passwords == {secret, hunter}

\* ------------------------------------------------ Bloom filter parameters
capacity == 10000
errorRatePerMille == 10     \* errorRate 0.01

Config == [capacity |-> capacity, errorRate |-> errorRatePerMille]

\* floor and remainder of a * b / c, digit by digit so that no intermediate
\* value leaves 32 bits
RECURSIVE MulDivMod(_, _, _)
MulDivMod(a, b, c) ==
    IF a = 0 THEN <<0, 0>>
    ELSE LET r == MulDivMod(a \div 10, b, c)
             t == 10 * r[2] + (a % 10) * b
         IN  <<10 * r[1] + (t \div c), t % c>>

\* -Math.log(p) in millionths, p in thousandths
negLogMicro(p) ==
    CASE p = 1 -> 6907755
      [] p = 10 -> 4605170
      [] p = 50 -> 2995732
      [] p = 100 -> 2302585

\* Math.log(2) * Math.log(2) and Math.log(2) in millionths
log2SquaredMicro == 480453
log2Micro == 693147
Million == 1000000

\* the size rounded down (a variant C23 tells apart)
optimalSizeFloor(n, p) == MulDivMod(n, negLogMicro(p), log2SquaredMicro)[1]

\* m = Math.ceil(-n * Math.log(p) / (Math.log(2) * Math.log(2)))
optimalSize(n, p) ==
    LET qr == MulDivMod(n, negLogMicro(p), log2SquaredMicro)
    IN  qr[1] + (IF qr[2] > 0 THEN 1 ELSE 0)

\* k = Math.max(1, Math.ceil((m / n) * Math.log(2)))
optimalHashes(m, n) ==
    LET qr == MulDivMod(m, log2Micro, n)
        c == (qr[1] \div Million)
             + (IF qr[1] % Million > 0 \/ qr[2] > 0 THEN 1 ELSE 0)
    IN  IF c > 1 THEN c ELSE 1

\* ----------------------------------------- the bloom-filters BloomFilter
\* new BloomFilter(size, nbHashes): an empty bit set
NewBloomFilter(m, k) == [size |-> m, nbHashes |-> k, bits |-> {}]

RECURSIVE hashString(_, _, _, _)
hashString(s, mult, acc, m) ==
    IF s = <<>> THEN acc
    ELSE hashString(Tail(s), mult, (acc * mult + charCode(Head(s))) % m, m)

\* the k bit positions of an element: double hashing, (a + i * b) mod m
getIndexes(s, m, k) ==
    LET a == hashString(s, 31, 7, m)
        b == 1 + hashString(s, 17, 3, m - 1)
    IN  { (a + i * b) % m : i \in 0..(k - 1) }

\* BloomFilter.add
BloomAdd(f, s) == [f EXCEPT !.bits = @ \cup getIndexes(s, f.size, f.nbHashes)]

\* BloomFilter.has: all k bits are set
BloomHas(f, s) == getIndexes(s, f.size, f.nbHashes) \subseteq f.bits

\* BloomFilter.length (bloom-filters 3.x: the number of bits set)
BloomLength(f) == Cardinality(f.bits)

RECURSIVE BloomAddAll(_, _)
BloomAddAll(f, S) ==
    IF S = {} THEN f
    ELSE LET e == CHOOSE x \in S : TRUE
         IN  BloomAddAll(BloomAdd(f, e), S \ {e})

\* the filter every constructor, clear and rebuild creates from this.config
ConfigFilter ==
    LET m == optimalSize(Config.capacity, Config.errorRate)
    IN  NewBloomFilter(m, optimalHashes(m, Config.capacity))

\* the sample usernames of seedWithSampleUsernames (the first sixteen of them)
AllSampleUsernames ==
  << <<"a","d","m","i","n">>,
     <<"u","s","e","r">>,
     <<"t","e","s","t">>,
     <<"d","e","m","o">>,
     <<"g","u","e","s","t">>,
     <<"r","o","o","t">>,
     <<"j","o","h","n">>,
     <<"j","a","n","e">>,
     <<"a","l","i","c","e">>,
     <<"b","o","b">>,
     <<"c","h","a","r","l","i","e">>,
     <<"d","a","v","i","d">>,
     <<"e","m","m","a">>,
     <<"f","r","a","n","k">>,
     <<"g","r","a","c","e">>,
     <<"h","e","n","r","y">> >>

sampleUsernames == SubSeq(AllSampleUsernames, 1, MaxSamples)

\* ------------------------------------------------------------------- state
VARIABLES
    users,          \* InMemoryUserDB.users: lower-cased name -> password
    bloomFilter,    \* UsernameBloomFilter.bloomFilter
    isInitialized,  \* UsernameBloomFilter.isInitialized
    redisMeta,      \* the Redis string key <redisKey>
    redisElements,  \* the Redis set key <redisKey>:elements
    redisUp,        \* whether Redis commands succeed
    serving,        \* the routes are registered (the start-up initialize is over)
    calls,          \* the method calls in flight, each at its next Redis command
    sequential,     \* callers await every call before they make the next one
    added,          \* per name: what became of the addUsername calls it completed
                    \* ("live", or the replacement of the filter that followed)
    last,           \* sequential callers: the call that ended last, with its answer
    ui,             \* the register page: its validation pipeline and its verdict
    created         \* per lower-cased name: the 201 answers of POST /auth/register

cacheVars == <<bloomFilter, isInitialized, redisMeta, redisElements>>
appVars == <<users, ui, created>>
vars == <<users, bloomFilter, isInitialized, redisMeta, redisElements, redisUp,
          serving, calls, sequential, added, last, ui, created>>

Slots == 1..MaxCalls
LowerNames == { toLowerCase(n) : n \in RawNames }

NoMeta == [present |-> FALSE, capacity |-> 0, errorRate |-> 0]
\* a call in flight: its method, its next Redis command, its argument, and of
\* its locals the seeding loop's index and validateCache's filterExists and
\* isValid; `clean`: nothing replaced the filter or changed the set beside it;
\* `again`: it follows what a claim relates it to (addUsername: a completed
\* addUsername of the same name; validateCache: a removal from the set of more
\* than the tolerance)
Idle == [op |-> "none", pc |-> "idle", arg |-> <<>>, i |-> 0, clean |-> TRUE,
         again |-> FALSE, filterExists |-> FALSE, isValid |-> TRUE]
Call(op, pc, arg) == [op |-> op, pc |-> pc, arg |-> arg, i |-> 0, clean |-> TRUE,
                      again |-> FALSE, filterExists |-> FALSE, isValid |-> TRUE]
BootCalls ==
    [t \in Slots |-> IF t = 1 THEN Call("initialize", "load_get", <<>>) ELSE Idle]

\* a new call takes the first free slot; sequential callers wait for all of them
Free(s) ==
    /\ serving
    /\ calls[s] = Idle
    /\ \A t \in Slots : t < s => calls[t] # Idle
    /\ sequential => \A t \in Slots : calls[t] = Idle

\* clear, refreshCache, rebuild and initialize replace the filter or reset
\* isInitialized under the calls in flight beside them
Lifecycle == {"initialize", "clear", "refreshCache", "rebuild"}
LifecycleInFlight == \E t \in Slots : calls[t].op \in Lifecycle

Taint(cs) ==
    [t \in Slots |-> IF cs[t] = Idle THEN Idle ELSE [cs[t] EXCEPT !.clean = FALSE]]

\* what a replacement of the engine makes of the names added so far
\* (followed up for sequential callers only)
Forgotten == [n \in RawNames |-> "no"]
Replaced(kind) ==
    IF sequential
    THEN [n \in RawNames |-> IF added[n] \in {"no", "cleared"} THEN added[n]
                             ELSE IF added[n] = "failed" THEN "no"
                             ELSE kind]
    ELSE Forgotten

\* "cleared" lasts until the next call begins
Settled == [n \in RawNames |-> IF added[n] = "cleared" THEN "no" ELSE added[n]]

\* the record of an ended call: its answer, and the stats and the shadow set's
\* cardinality it leaves
Ended(op, arg, out, again, f, elems) ==
    [op |-> op, arg |-> arg, out |-> out, again |-> again,
     est |-> BloomLength(f), card |-> Cardinality(elems)]

NoCall == [op |-> "none", arg |-> <<>>, out |-> "ok", again |-> FALSE,
           est |-> 0, card |-> 0]

\* the call that ended last was a successful addUsername of the same name, up
\* to case
JustAdded(username) ==
    /\ sequential
    /\ last.op = "addUsername"
    /\ last.out = "ok"
    /\ toLowerCase(last.arg) = toLowerCase(username)

Record(e) == IF sequential THEN e ELSE last

\* the call in slot s ends with `out`, leaving filter f and elements elems
Finish(s, out, f, elems) ==
    /\ calls' = [calls EXCEPT ![s] = Idle]
    /\ last' = Record(Ended(calls[s].op, calls[s].arg, out, calls[s].again,
                            f, elems))

\* ------------------------------------------------------ UsernameBloomFilter
\* loadFromRedis: the filter for the stored parameters
StoredFilter(meta) ==
    LET n == IF meta.capacity # 0 THEN meta.capacity ELSE Config.capacity
        p == IF meta.errorRate # 0 THEN meta.errorRate ELSE Config.errorRate
        m == optimalSize(n, p)
    IN  NewBloomFilter(m, optimalHashes(m, n))

\* mightExist without the lower-casing (a variant C10 tells apart)
mightExistAsTyped(username) ==
    IF ~isInitialized THEN "error"
    ELSE IF BloomHas(bloomFilter, username) THEN "true" ELSE "false"

\* mightExist
mightExist(username) ==
    IF ~isInitialized THEN "error"
    ELSE IF BloomHas(bloomFilter, toLowerCase(username)) THEN "true" ELSE "false"

\* getStats().estimatedElements
estimatedElements == BloomLength(bloomFilter)

\* initialize() is called
StartInitialize(s) ==
    /\ Free(s)
    /\ calls' = [Taint(calls) EXCEPT ![s] = Call("initialize", "load_get", <<>>)]
    /\ added' = Settled
    /\ UNCHANGED <<appVars, cacheVars, redisUp, serving, sequential, last>>

\* loadFromRedis: redis.get(redisKey) answers
LoadGet(s) ==
    /\ calls[s].pc = "load_get"
    /\ redisUp
    /\ IF redisMeta.present
       THEN /\ bloomFilter' = StoredFilter(redisMeta)
            /\ calls' = [Taint(calls) EXCEPT ![s].pc = "load_smembers"]
            /\ added' = Replaced("reloaded")
       ELSE /\ calls' = [calls EXCEPT ![s].pc = "init_scard"]
            /\ UNCHANGED <<bloomFilter, added>>
    /\ UNCHANGED <<appVars, isInitialized, redisMeta, redisElements, redisUp,
                   serving, sequential, last>>

\* loadFromRedis: redis.smembers answers and every element is added
LoadSmembers(s) ==
    /\ calls[s].pc = "load_smembers"
    /\ redisUp
    /\ bloomFilter' = BloomAddAll(bloomFilter, redisElements)
    /\ calls' = [calls EXCEPT ![s].pc = "init_scard"]
    /\ UNCHANGED <<appVars, isInitialized, redisMeta, redisElements, redisUp,
                   serving, sequential, added, last>>

\* initialize: redis.scard answers; an empty set starts the seeding loop
InitScard(s) ==
    /\ calls[s].pc = "init_scard"
    /\ redisUp
    /\ IF redisElements = {}
       THEN /\ IF Len(sampleUsernames) = 0
               THEN /\ calls' = [calls EXCEPT ![s].pc = "save_set"]
                    /\ UNCHANGED bloomFilter
               ELSE /\ bloomFilter' =
                         BloomAdd(bloomFilter, toLowerCase(sampleUsernames[1]))
                    /\ calls' = [calls EXCEPT ![s].pc = "seed_sadd", ![s].i = 1]
            /\ UNCHANGED <<isInitialized, serving, last>>
       ELSE /\ isInitialized' = TRUE
            /\ serving' = TRUE
            /\ Finish(s, "ok", bloomFilter, redisElements)
            /\ UNCHANGED bloomFilter
    /\ UNCHANGED <<appVars, redisMeta, redisElements, redisUp, sequential, added>>

\* seedWithSampleUsernames: redis.sadd of sample i answers, the next is added
SeedSadd(s) ==
    /\ calls[s].pc = "seed_sadd"
    /\ redisUp
    /\ LET i == calls[s].i IN
       /\ redisElements' = redisElements \cup {toLowerCase(sampleUsernames[i])}
       /\ IF i < Len(sampleUsernames)
          THEN /\ bloomFilter' =
                    BloomAdd(bloomFilter, toLowerCase(sampleUsernames[i + 1]))
               /\ calls' = [calls EXCEPT ![s].i = i + 1]
          ELSE /\ calls' = [calls EXCEPT ![s].pc = "save_set", ![s].i = 0]
               /\ UNCHANGED bloomFilter
    /\ UNCHANGED <<appVars, isInitialized, redisMeta, redisUp, serving,
                   sequential, added, last>>

\* saveToRedis: redis.set(redisKey, {capacity, errorRate, elements: []})
SaveSet(s) ==
    /\ calls[s].pc = "save_set"
    /\ redisUp
    /\ redisMeta' = [present |-> TRUE, capacity |-> Config.capacity,
                     errorRate |-> Config.errorRate]
    /\ calls' = [calls EXCEPT ![s].pc = "save_del"]
    /\ UNCHANGED <<appVars, bloomFilter, isInitialized, redisElements, redisUp,
                   serving, sequential, added, last>>

\* the names an ended addUsername leaves in `added`: "live" when no clear,
\* rebuild, refreshCache or initialize call was in flight beside it, "raced" when
\* some were and all of them have ended
AddedAfter(c) ==
    [added EXCEPT ![c.arg] = IF c.clean THEN "live"
                             ELSE IF LifecycleInFlight THEN @
                             ELSE "raced"]

\* saveToRedis: redis.del(<redisKey>:elements), then the caller's last lines
SaveDel(s) ==
    /\ calls[s].pc = "save_del"
    /\ redisUp
    /\ redisElements' = {}
    /\ IF calls[s].op \in {"initialize", "refreshCache"}
       THEN isInitialized' = TRUE /\ serving' = TRUE
       ELSE UNCHANGED <<isInitialized, serving>>
    /\ added' = IF calls[s].op = "addUsername" THEN AddedAfter(calls[s]) ELSE added
    /\ Finish(s, "ok", bloomFilter, {})
    /\ UNCHANGED <<appVars, bloomFilter, redisMeta, redisUp, sequential>>

\* addUsername that leaves the in-memory filter alone (a variant C1 tells apart)
StartAddUsernameRedisOnly(s, username) ==
    /\ Free(s)
    /\ IF ~isInitialized
       THEN /\ last' = Record(Ended("addUsername", username, "error", FALSE,
                                    bloomFilter, redisElements))
            /\ UNCHANGED <<bloomFilter, calls>>
       ELSE /\ UNCHANGED bloomFilter
            /\ calls' = [calls EXCEPT ![s] =
                    [Call("addUsername", "add_sadd", username)
                        EXCEPT !.clean = ~LifecycleInFlight,
                               !.again = JustAdded(username)]]
            /\ UNCHANGED last
    /\ added' = Settled
    /\ UNCHANGED <<appVars, isInitialized, redisMeta, redisElements, redisUp,
                   serving, sequential>>

\* addUsername that adds the name as typed (a variant C9 tells apart)
StartAddUsernameAsTyped(s, username) ==
    /\ Free(s)
    /\ IF ~isInitialized
       THEN /\ last' = Record(Ended("addUsername", username, "error", FALSE,
                                    bloomFilter, redisElements))
            /\ UNCHANGED <<bloomFilter, calls>>
       ELSE /\ bloomFilter' = BloomAdd(bloomFilter, username)
            /\ calls' = [calls EXCEPT ![s] =
                    [Call("addUsername", "add_sadd", username)
                        EXCEPT !.clean = ~LifecycleInFlight,
                               !.again = JustAdded(username)]]
            /\ UNCHANGED last
    /\ added' = Settled
    /\ UNCHANGED <<appVars, isInitialized, redisMeta, redisElements, redisUp,
                   serving, sequential>>

\* addUsername that adds to a new filter (a variant C19 tells apart)
StartAddUsernameFreshFilter(s, username) ==
    /\ Free(s)
    /\ IF ~isInitialized
       THEN /\ last' = Record(Ended("addUsername", username, "error", FALSE,
                                    bloomFilter, redisElements))
            /\ UNCHANGED <<bloomFilter, calls>>
       ELSE /\ bloomFilter' = BloomAdd(ConfigFilter, toLowerCase(username))
            /\ calls' = [calls EXCEPT ![s] =
                    [Call("addUsername", "add_sadd", username)
                        EXCEPT !.clean = ~LifecycleInFlight,
                               !.again = JustAdded(username)]]
            /\ UNCHANGED last
    /\ added' = Settled
    /\ UNCHANGED <<appVars, isInitialized, redisMeta, redisElements, redisUp,
                   serving, sequential>>

\* addUsername without its isInitialized guard (a variant C29 tells apart)
StartAddUsernameUnguarded(s, username) ==
    /\ Free(s)
    /\ IF FALSE
       THEN /\ last' = Record(Ended("addUsername", username, "error", FALSE,
                                    bloomFilter, redisElements))
            /\ UNCHANGED <<bloomFilter, calls>>
       ELSE /\ bloomFilter' = BloomAdd(bloomFilter, toLowerCase(username))
            /\ calls' = [calls EXCEPT ![s] =
                    [Call("addUsername", "add_sadd", username)
                        EXCEPT !.clean = ~LifecycleInFlight,
                               !.again = JustAdded(username)]]
            /\ UNCHANGED last
    /\ added' = Settled
    /\ UNCHANGED <<appVars, isInitialized, redisMeta, redisElements, redisUp,
                   serving, sequential>>

\* addUsername(username) is called: the guard and the in-memory add
StartAddUsername(s, username) ==
    /\ Free(s)
    /\ IF ~isInitialized
       THEN /\ last' = Record(Ended("addUsername", username, "error", FALSE,
                                    bloomFilter, redisElements))
            /\ UNCHANGED <<bloomFilter, calls>>
       ELSE /\ bloomFilter' = BloomAdd(bloomFilter, toLowerCase(username))
            /\ calls' = [calls EXCEPT ![s] =
                    [Call("addUsername", "add_sadd", username)
                        EXCEPT !.clean = ~LifecycleInFlight,
                               !.again = JustAdded(username)]]
            /\ UNCHANGED last
    /\ added' = Settled
    /\ UNCHANGED <<appVars, isInitialized, redisMeta, redisElements, redisUp,
                   serving, sequential>>

\* addUsername: redis.sadd(<redisKey>:elements, normalizedUsername) answers
AddSadd(s) ==
    /\ calls[s].pc = "add_sadd"
    /\ redisUp
    /\ redisElements' = redisElements \cup {toLowerCase(calls[s].arg)}
    /\ calls' = [calls EXCEPT ![s].pc = "save_set"]
    /\ UNCHANGED <<appVars, bloomFilter, isInitialized, redisMeta, redisUp,
                   serving, sequential, added, last>>

\* clear that keeps the filter it has (a variant C12 tells apart)
StartClearKeepsFilter(s, op) ==
    /\ Free(s)
    /\ UNCHANGED bloomFilter
    /\ calls' = [Taint(calls) EXCEPT ![s] = Call(op, "clear_delMeta", <<>>)]
    /\ added' = Replaced("cleared")
    /\ UNCHANGED <<appVars, isInitialized, redisMeta, redisElements, redisUp,
                   serving, sequential, last>>

\* clear() or refreshCache() is called: clear's new empty filter
StartClear(s, op) ==
    /\ Free(s)
    /\ bloomFilter' = ConfigFilter
    /\ calls' = [Taint(calls) EXCEPT ![s] = Call(op, "clear_delMeta", <<>>)]
    /\ added' = Replaced("cleared")
    /\ UNCHANGED <<appVars, isInitialized, redisMeta, redisElements, redisUp,
                   serving, sequential, last>>

\* clear: redis.del(redisKey) answers
ClearDelMeta(s) ==
    /\ calls[s].pc = "clear_delMeta"
    /\ redisUp
    /\ redisMeta' = NoMeta
    /\ calls' = [calls EXCEPT ![s].pc = "clear_delElems"]
    /\ added' = Replaced("cleared")
    /\ UNCHANGED <<appVars, bloomFilter, isInitialized, redisElements, redisUp,
                   serving, sequential, last>>

\* clear that leaves isInitialized as it is (a variant C11 tells apart)
ClearDelElemsStaysReady(s) ==
    /\ calls[s].pc = "clear_delElems"
    /\ redisUp
    /\ redisElements' = {}
    /\ added' = Replaced("cleared")
    /\ IF calls[s].op = "clear"
       THEN Finish(s, "ok", bloomFilter, {})
       ELSE /\ calls' = [calls EXCEPT ![s].pc = "load_get"]
            /\ UNCHANGED last
    /\ UNCHANGED <<appVars, bloomFilter, isInitialized, redisMeta, redisUp, serving, sequential>>

\* refreshCache that ends with its clear (a variant C15 tells apart)
ClearDelElemsEndsRefresh(s) ==
    /\ calls[s].pc = "clear_delElems"
    /\ redisUp
    /\ redisElements' = {}
    /\ isInitialized' = FALSE
    /\ added' = Replaced("cleared")
    /\ Finish(s, "ok", bloomFilter, {})
    /\ UNCHANGED <<appVars, bloomFilter, redisMeta, redisUp, serving, sequential>>

\* clear: redis.del(<redisKey>:elements) answers; refreshCache goes on to
\* initialize
ClearDelElems(s) ==
    /\ calls[s].pc = "clear_delElems"
    /\ redisUp
    /\ redisElements' = {}
    /\ isInitialized' = FALSE
    /\ added' = Replaced("cleared")
    /\ IF calls[s].op = "clear"
       THEN Finish(s, "ok", bloomFilter, {})
       ELSE /\ calls' = [calls EXCEPT ![s].pc = "load_get"]
            /\ UNCHANGED last
    /\ UNCHANGED <<appVars, bloomFilter, redisMeta, redisUp, serving, sequential>>

\* rebuild() is called
StartRebuild(s) ==
    /\ Free(s)
    /\ calls' = [Taint(calls) EXCEPT ![s] = Call("rebuild", "rb_smembers", <<>>)]
    /\ added' = Settled
    /\ UNCHANGED <<appVars, cacheVars, redisUp, serving, sequential, last>>

\* rebuild: redis.smembers answers; a new filter gets every element
RebuildSmembers(s) ==
    /\ calls[s].pc = "rb_smembers"
    /\ redisUp
    /\ bloomFilter' = BloomAddAll(ConfigFilter, redisElements)
    /\ calls' = [Taint(calls) EXCEPT ![s].pc = "save_set"]
    /\ added' = Replaced("rebuilt")
    /\ UNCHANGED <<appVars, isInitialized, redisMeta, redisElements, redisUp,
                   serving, sequential, last>>

\* the names an addUsername that threw leaves in `added`: "failed", unless a
\* completed addUsername put the name into the filter in use before
AddedFailing(c) ==
    IF c.op = "addUsername" /\ c.clean
    THEN [added EXCEPT ![c.arg] = IF @ = "live" THEN "live" ELSE "failed"]
    ELSE added

\* a failing addUsername that takes its name out of the filter again
\* (a variant C20 tells apart)
RedisFailRollsBack(s) ==
    /\ calls[s] # Idle
    /\ ~redisUp
    /\ bloomFilter' =
          IF calls[s].op = "addUsername"
          THEN [bloomFilter EXCEPT !.bits =
                   @ \ getIndexes(toLowerCase(calls[s].arg), bloomFilter.size,
                                  bloomFilter.nbHashes)]
          ELSE bloomFilter
    /\ IF calls[s].op = "validateCache"
       THEN Finish(s, "invalid", ConfigFilter, {})
       ELSE Finish(s, "error", bloomFilter', redisElements)
    /\ added' = AddedFailing(calls[s])
    /\ UNCHANGED <<appVars, isInitialized, redisMeta, redisElements, redisUp,
                   serving, sequential>>

\* a clear whose failing del goes unnoticed (a variant C21 tells apart)
RedisFailClearSwallows(s) ==
    /\ calls[s] # Idle
    /\ ~redisUp
    /\ IF calls[s].op = "validateCache"
       THEN Finish(s, "invalid", ConfigFilter, {})
       ELSE Finish(s, IF calls[s].op = "clear" THEN "ok" ELSE "error",
                   bloomFilter, redisElements)
    /\ added' = AddedFailing(calls[s])
    /\ UNCHANGED <<appVars, cacheVars, redisUp, serving, sequential>>

\* a Redis command of a call in flight fails: the method throws, and
\* validateCache catches and returns {isValid: false, 0, 0}
RedisFail(s) ==
    /\ calls[s] # Idle
    /\ ~redisUp
    /\ IF calls[s].op = "validateCache"
       THEN Finish(s, "invalid", ConfigFilter, {})
       ELSE Finish(s, "error", bloomFilter, redisElements)
    /\ added' = AddedFailing(calls[s])
    /\ UNCHANGED <<appVars, cacheVars, redisUp, serving, sequential>>

\* mightExist(username) is called and answers
MightExist(username) ==
    /\ serving
    /\ mightExist(username) \in {"true", "false", "error"}
    /\ UNCHANGED vars

\* getStats() is called and answers
GetStats ==
    /\ serving
    /\ estimatedElements >= 0
    /\ UNCHANGED vars

\* Math.abs(storedElements - filterElements) > 10
tolerance == 10

\* a removal by hand of more than the tolerance ended last
RemovedBeyondTolerance ==
    /\ sequential
    /\ last.op = "srem"
    /\ last.card > tolerance

\* validateCache() is called: redis.exists(<redisKey>) is sent
StartValidateCache(s) ==
    /\ Free(s)
    /\ calls' = [calls EXCEPT ![s] = [Call("validateCache", "val_exists_meta", <<>>)
                                        EXCEPT !.again = RemovedBeyondTolerance]]
    /\ UNCHANGED <<appVars, cacheVars, redisUp, serving, sequential, added, last>>

\* validateCache: exists(<redisKey>) answers
ValidateExistsMeta(s) ==
    /\ calls[s].pc = "val_exists_meta"
    /\ redisUp
    /\ calls' = [calls EXCEPT ![s].pc = "val_exists_elems",
                              ![s].filterExists = redisMeta.present]
    /\ UNCHANGED <<appVars, cacheVars, redisUp, serving, sequential, added, last>>

\* validateCache: exists(<redisKey>:elements) answers (an empty set is no key);
\* the two existence checks
ValidateExistsElems(s) ==
    /\ calls[s].pc = "val_exists_elems"
    /\ redisUp
    /\ LET filterExists == calls[s].filterExists
           elementsExist == redisElements # {}
       IN  calls' = [calls EXCEPT ![s].pc = "val_scard",
                                  ![s].isValid = /\ ~(~filterExists /\ elementsExist)
                                                 /\ ~(filterExists /\ ~elementsExist)]
    /\ UNCHANGED <<appVars, cacheVars, redisUp, serving, sequential, added, last>>

\* validateCache that leaves the counts out (a variant C16 tells apart)
ValidateScardSkipsCounts(s) ==
    /\ calls[s].pc = "val_scard"
    /\ redisUp
    /\ Finish(s, IF calls[s].isValid THEN "valid" ELSE "invalid",
              bloomFilter, redisElements)
    /\ UNCHANGED <<appVars, cacheVars, redisUp, serving, sequential, added>>

\* validateCache that deletes the elements key it finds wrong (a variant C25
\* tells apart)
ValidateScardRepairs(s) ==
    /\ calls[s].pc = "val_scard"
    /\ redisUp
    /\ LET storedElements == Cardinality(redisElements)
           filterElements == BloomLength(bloomFilter)
           mismatch == \/ storedElements - filterElements > tolerance
                       \/ filterElements - storedElements > tolerance
       IN  /\ Finish(s, IF calls[s].isValid /\ ~mismatch THEN "valid" ELSE "invalid",
                     bloomFilter, redisElements)
           /\ redisElements' = IF mismatch THEN {} ELSE redisElements
    /\ UNCHANGED <<appVars, bloomFilter, isInitialized, redisMeta, redisUp,
                   serving, sequential, added>>

\* validateCache: scard(<redisKey>:elements) answers; the count check against
\* this.bloomFilter.length, and the result
ValidateScard(s) ==
    /\ calls[s].pc = "val_scard"
    /\ redisUp
    /\ LET storedElements == Cardinality(redisElements)
           filterElements == BloomLength(bloomFilter)
           mismatch == \/ storedElements - filterElements > tolerance
                       \/ filterElements - storedElements > tolerance
       IN  Finish(s, IF calls[s].isValid /\ ~mismatch THEN "valid" ELSE "invalid",
                  bloomFilter, redisElements)
    /\ UNCHANGED <<appVars, cacheVars, redisUp, serving, sequential, added>>

\* ---------------------------------------------------------- InMemoryUserDB
\* userExists
userExists(us, username) == toLowerCase(username) \in DOMAIN us

\* addUser without the presence test (a variant C8 tells apart)
addUserOverwrites(us, username, password) ==
    LET normalizedUsername == toLowerCase(username)
    IN  [ret |-> TRUE,
         users |-> (normalizedUsername :> password) @@ us]

\* addUser: the returned flag and the map it leaves
addUser(us, username, password) ==
    LET normalizedUsername == toLowerCase(username)
    IN  IF normalizedUsername \in DOMAIN us
        THEN [ret |-> FALSE, users |-> us]
        ELSE [ret |-> TRUE, users |-> us @@ (normalizedUsername :> password)]

\* ------------------------------------------------------------- HTTP routes
NoReply == [status |-> 0, body |-> "none"]
Created(n) == IF n \in DOMAIN created THEN created[n] ELSE 0

\* POST /username/validate: the reply to a body {username}
validateRoute(username) ==
    IF Len(trim(username)) = 0
    THEN [status |-> 400, body |-> "none"]
    ELSE LET r == mightExist(trim(toLowerCase(username)))
         IN  IF r = "error"
             THEN [status |-> 500, body |-> "none"]
             ELSE [status |-> 200, body |-> r]

\* GET /auth/check/:username: the reply
checkRoute(username) ==
    IF username = <<>>
    THEN [status |-> 400, body |-> "none"]
    ELSE [status |-> 200,
          body |-> IF userExists(users, username) THEN "true" ELSE "false"]

\* POST /username/add: 400 for a blank name, else addUsername of the
\* lower-cased, trimmed name (the reply follows when that call ends)
PostUsernameAdd(s, username) ==
    IF Len(trim(username)) = 0
    THEN /\ Free(s)
         /\ last' = Record(Ended("usernameAdd", username, "400", FALSE,
                                 bloomFilter, redisElements))
         /\ UNCHANGED <<appVars, cacheVars, redisUp, serving, calls,
                        sequential, added>>
    ELSE StartAddUsername(s, trim(toLowerCase(username)))

\* POST /username/add: the status of the reply when addUsername has ended
usernameAddStatus(out) == IF out = "ok" THEN 200 ELSE 500

\* POST /auth/register: the schema, then addUser; 201 or 409
PostAuthRegister(username, password) ==
    /\ serving
    /\ Created(toLowerCase(username)) < MaxReg
    /\ IF Len(username) < 3 \/ Len(username) > 50 \/ Len(password) < 6
       THEN /\ last' = Record(Ended("register", username, "400", FALSE,
                                    bloomFilter, redisElements))
            /\ UNCHANGED <<users, created>>
       ELSE LET r == addUser(users, username, password)
                n == toLowerCase(username)
            IN  /\ users' = r.users
                /\ created' = IF r.ret
                              THEN (n :> Created(n) + 1) @@ created
                              ELSE created
                /\ last' = Record(Ended("register", username,
                                        IF r.ret THEN "201" ELSE "409", FALSE,
                                        bloomFilter, redisElements))
    /\ UNCHANGED <<cacheVars, redisUp, serving, calls, sequential, added, ui>>

\* ------------------------------------------------------- the register page
NoValidation ==
    [name |-> <<>>, stage |-> "idle", isAvailable |-> "null",
     validated |-> NoReply, checked |-> NoReply, registered |-> FALSE]

\* whether a request reaches the server and its reply the page
Outcomes == {"answered", "lost"}

\* onUsernameChange(value): a short value clears the verdict; any other one that
\* differs from the last one emitted starts the pipeline again
OnUsernameChange(value) ==
    /\ IF Len(value) < 3
       THEN ui' = [ui EXCEPT !.isAvailable = "null"]
       ELSE IF value = ui.name
            THEN UNCHANGED ui
            ELSE ui' = [NoValidation EXCEPT
                            !.name = value,
                            !.stage = "validating",
                            !.isAvailable = ui.isAvailable,
                            !.registered = Created(toLowerCase(value)) > 0]
    /\ UNCHANGED <<users, created, cacheVars, redisUp, serving, calls,
                   sequential, added, last>>

\* a pipeline that asks the user store whatever the cache said (a variant C4
\* tells apart)
ValidateAnswersAlwaysChecks(outcome) ==
    /\ ui.stage = "validating"
    /\ outcome = "answered" => serving
    /\ LET r == IF outcome = "answered" THEN validateRoute(ui.name) ELSE NoReply
       IN  ui' = IF r.status = 200
                 THEN [ui EXCEPT !.stage = "checking", !.validated = r]
                 ELSE [ui EXCEPT !.stage = "done", !.validated = r,
                                 !.isAvailable = "null"]
    /\ UNCHANGED <<users, created, cacheVars, redisUp, serving, calls,
                   sequential, added, last>>

\* apiService.validateUsername answers: mightExist goes on to checkUserExists,
\* anything else is the result
ValidateAnswers(outcome) ==
    /\ ui.stage = "validating"
    /\ outcome = "answered" => serving
    /\ LET r == IF outcome = "answered" THEN validateRoute(ui.name) ELSE NoReply
       IN  ui' = IF r.status = 200
                 THEN IF r.body = "true"
                      THEN [ui EXCEPT !.stage = "checking", !.validated = r]
                      ELSE [ui EXCEPT !.stage = "done", !.validated = r,
                                      !.isAvailable = "true"]
                 ELSE [ui EXCEPT !.stage = "done", !.validated = r,
                                 !.isAvailable = "null"]
    /\ UNCHANGED <<users, created, cacheVars, redisUp, serving, calls,
                   sequential, added, last>>

\* a pipeline that takes a failed check for exists: false (a variant C5 tells
\* apart)
CheckAnswersFailureAbsent(outcome) ==
    /\ ui.stage = "checking"
    /\ outcome = "answered" => serving
    /\ LET r == IF outcome = "answered" THEN checkRoute(ui.name) ELSE NoReply
           exists == IF r.status = 200 THEN r.body = "true" ELSE FALSE
       IN  ui' = [ui EXCEPT !.stage = "done", !.checked = r,
                            !.isAvailable = IF exists THEN "false" ELSE "true"]
    /\ UNCHANGED <<users, created, cacheVars, redisUp, serving, calls,
                   sequential, added, last>>

\* apiService.checkUserExists answers; a failure counts as exists: true
CheckAnswers(outcome) ==
    /\ ui.stage = "checking"
    /\ outcome = "answered" => serving
    /\ LET r == IF outcome = "answered" THEN checkRoute(ui.name) ELSE NoReply
           exists == IF r.status = 200 THEN r.body = "true" ELSE TRUE
       IN  ui' = [ui EXCEPT !.stage = "done", !.checked = r,
                            !.isAvailable = IF exists THEN "false" ELSE "true"]
    /\ UNCHANGED <<users, created, cacheVars, redisUp, serving, calls,
                   sequential, added, last>>

\* ------------------------------------------------------------ environment
\* Redis becomes unreachable, or reachable again
RedisOutage ==
    /\ sequential
    /\ redisUp' = ~redisUp
    /\ UNCHANGED <<appVars, cacheVars, serving, calls, sequential, added, last>>

\* InMemoryUserDB.initialize: the generated users, each with its password
GeneratedUsers == [n \in GeneratedNames |-> "generated"]

\* the process ends and starts again over the same Redis: a new InMemoryUserDB,
\* a new UsernameBloomFilter, and usernameRoutes calls initialize()
Restart ==
    /\ users' = GeneratedUsers
    /\ bloomFilter' = ConfigFilter
    /\ isInitialized' = FALSE
    /\ serving' = FALSE
    /\ calls' = BootCalls
    /\ added' = Replaced("reloaded")
    /\ last' = NoCall
    /\ UNCHANGED <<redisMeta, redisElements, redisUp, sequential, ui, created>>

InitCommon ==
    /\ users = GeneratedUsers
    /\ bloomFilter = ConfigFilter
    /\ isInitialized = FALSE
    /\ redisMeta = NoMeta
    /\ redisElements = {}
    /\ redisUp = TRUE
    /\ serving = FALSE
    /\ calls = BootCalls
    /\ added = Forgotten
    /\ last = NoCall
    /\ ui = NoValidation
    /\ created = [n \in {} |-> 0]

Init == InitCommon /\ sequential = FALSE
InitSeq == InitCommon /\ sequential = TRUE

Next ==
    \/ \E s \in Slots : StartInitialize(s)
    \/ \E s \in Slots : LoadGet(s)
    \/ \E s \in Slots : LoadSmembers(s)
    \/ \E s \in Slots : InitScard(s)
    \/ \E s \in Slots : SeedSadd(s)
    \/ \E s \in Slots : SaveSet(s)
    \/ \E s \in Slots : SaveDel(s)
    \/ \E s \in Slots, n \in RawNames : StartAddUsername(s, n)
    \/ \E s \in Slots : AddSadd(s)
    \/ \E s \in Slots, op \in {"clear", "refreshCache"} : StartClear(s, op)
    \/ \E s \in Slots : ClearDelMeta(s)
    \/ \E s \in Slots : ClearDelElems(s)
    \/ \E s \in Slots : StartRebuild(s)
    \/ \E s \in Slots : RebuildSmembers(s)
    \/ \E n \in RawNames : MightExist(n)
    \/ GetStats

NextSeq ==
    \/ Next
    \/ Restart
    \/ \E s \in Slots : RedisFail(s)
    \/ RedisOutage

\* requests of concurrent callers, Redis reachable
Spec == Init /\ [][Next]_vars

\* callers that await every call, over a Redis that can fail
SpecSeq == InitSeq /\ [][NextSeq]_vars

\* one run of the server behind its HTTP routes, and a register page
NextApp ==
    \/ \E s \in Slots : LoadGet(s)
    \/ \E s \in Slots : InitScard(s)
    \/ \E s \in Slots : SeedSadd(s)
    \/ \E s \in Slots : SaveSet(s)
    \/ \E s \in Slots : SaveDel(s)
    \/ \E s \in Slots : AddSadd(s)
    \/ \E s \in Slots : StartClear(s, "refreshCache")
    \/ \E s \in Slots : ClearDelMeta(s)
    \/ \E s \in Slots : ClearDelElems(s)
    \/ \E s \in Slots, n \in AddBodies : PostUsernameAdd(s, n)
    \/ \E n \in RegisterNames, p \in Passwords : PostAuthRegister(n, p)
    \/ \E n \in TypedNames : OnUsernameChange(n)
    \/ \E o \in Outcomes : ValidateAnswers(o)
    \/ \E o \in Outcomes : CheckAnswers(o)

SpecApp == InitSeq /\ [][NextApp]_vars

\* the order in which the names of a damaged shadow set are taken out by hand
StoredOrder == <<zed>> \o AllSampleUsernames

\* the r members of S that come last in that order
LastOf(S, r) ==
    { e \in S : Cardinality({ d \in S : IndexOf(d, StoredOrder) > IndexOf(e, StoredOrder) }) < r }

\* somebody removes r members from <redisKey>:elements (SREM), the process not
\* being told
Srem(r) ==
    /\ r <= Cardinality(redisElements)
    /\ redisUp
    /\ redisElements' = redisElements \ LastOf(redisElements, r)
    /\ calls' = Taint(calls)
    /\ last' = Record(Ended("srem", <<>>, "ok", FALSE, bloomFilter,
                            LastOf(redisElements, r)))
    /\ UNCHANGED <<appVars, bloomFilter, isInitialized, redisMeta, redisUp,
                   serving, sequential, added>>

\* the sample usernames a seeding that stopped after k sadd left in the set
MaxStored == 13
StoredSamples(k) == { AllSampleUsernames[i] : i \in 1..k }

\* a start-up that stopped inside seedWithSampleUsernames after k names, and a
\* process started over what it left: initialize() finds no metadata and a
\* set that is not empty, so it neither loads nor seeds ("initialize"); then an
\* addUsername whose last command, the del of saveToRedis, fails
\* ("addUsername"); then another start, which loads the set ("restart")
InitDrift ==
    /\ users = GeneratedUsers
    /\ isInitialized = TRUE
    /\ redisUp = TRUE
    /\ serving = TRUE
    /\ calls = [t \in Slots |-> Idle]
    /\ sequential = TRUE
    /\ added = Forgotten
    /\ last = NoCall
    /\ ui = NoValidation
    /\ created = [n \in {} |-> 0]
    /\ \E k \in 1..MaxStored, after \in {"initialize", "addUsername", "restart"} :
          /\ redisMeta = IF after = "initialize" THEN NoMeta
                         ELSE [present |-> TRUE, capacity |-> Config.capacity,
                               errorRate |-> Config.errorRate]
          /\ redisElements = IF after = "initialize" THEN StoredSamples(k)
                             ELSE StoredSamples(k) \cup {zed}
          /\ bloomFilter = CASE after = "initialize" -> ConfigFilter
                              [] after = "addUsername" -> BloomAdd(ConfigFilter, zed)
                              [] OTHER -> BloomAddAll(ConfigFilter,
                                                      StoredSamples(k) \cup {zed})

NextDrift ==
    \/ \E s \in Slots : StartValidateCache(s)
    \/ \E s \in Slots : ValidateExistsMeta(s)
    \/ \E s \in Slots : ValidateExistsElems(s)
    \/ \E s \in Slots : ValidateScard(s)
    \/ \E r \in 1..(MaxStored + 1) : Srem(r)
    \/ \E s \in Slots : RedisFail(s)
    \/ RedisOutage
    \/ \E n \in RawNames : MightExist(n)

\* validateCache() over a shadow set that is damaged and repaired by hand
SpecDrift == InitDrift /\ [][NextDrift]_vars

\* metadata written by an earlier run of the server under another configuration
OtherConfigs ==
    { [capacity |-> 1000, errorRate |-> errorRatePerMille],
      [capacity |-> capacity, errorRate |-> 50] }

\* the process starts over a Redis that holds such metadata (and, saveToRedis
\* having deleted it, no elements key)
InitConfig ==
    /\ users = GeneratedUsers
    /\ bloomFilter = ConfigFilter
    /\ isInitialized = FALSE
    /\ \E c \in OtherConfigs :
          redisMeta = [present |-> TRUE, capacity |-> c.capacity,
                       errorRate |-> c.errorRate]
    /\ redisElements = {}
    /\ redisUp = TRUE
    /\ serving = FALSE
    /\ calls = BootCalls
    /\ sequential = TRUE
    /\ added = Forgotten
    /\ last = NoCall
    /\ ui = NoValidation
    /\ created = [n \in {} |-> 0]

\* callers that await every call, after a change of configuration
SpecConfig == InitConfig /\ [][Next]_vars

\* callers that await every call and ask for a validation between them, Redis
\* reachable
NextValidate ==
    \/ Next
    \/ \E s \in Slots : StartValidateCache(s)
    \/ \E s \in Slots : ValidateExistsMeta(s)
    \/ \E s \in Slots : ValidateExistsElems(s)
    \/ \E s \in Slots : ValidateScard(s)

SpecValidate == InitSeq /\ [][NextValidate]_vars

\* ------------------------------------------------------------------ claims
\* C1 (as claimed): once addUsername(n) has completed successfully, mightExist(n)
\* returns true as long as no clear, rebuild or refreshCache runs after the
\* completion.
C1_NoFalseNegativeAfterCompletion ==
    \A n \in RawNames :
        (added[n] \in {"live", "raced"} /\ ~LifecycleInFlight)
            => mightExist(n) = "true"

\* C1 (amended): once addUsername(n) has completed successfully, with no clear,
\* rebuild, refreshCache or initialize call in progress while it ran and none
\* replacing the filter since, mightExist(n) returns true.
C1_NoFalseNegatives ==
    \A n \in RawNames : added[n] = "live" => mightExist(n) = "true"

C1_Witness ==
    \E n \in RawNames :
        /\ added[n] = "live"
        /\ mightExist(n) = "true"
        /\ \E s \in Slots : calls[s].op = "addUsername"

\* C2: after successful addUsername calls followed by a completed rebuild(),
\* every name added before still satisfies mightExist(n) = true.
C2_RebuildKeepsAddedNames ==
    (last.op = "rebuild" /\ last.out = "ok") =>
        \A n \in RawNames : added[n] = "rebuilt" => mightExist(n) = "true"

\* C3: after successful addUsername calls, a restart followed by a completed
\* initialize() leaves every name added before with mightExist(n) = true.
C3_RestartKeepsAddedNames ==
    (last.op = "initialize" /\ last.out = "ok") =>
        \A n \in RawNames : added[n] = "reloaded" => mightExist(n) = "true"

\* no call is in flight: the state a call that has ended leaves to the next one
Quiet == \A s \in Slots : calls[s] = Idle

\* C11 (as claimed): after addUsername(n) and a completed clear(), mightExist(n)
\* returns false.
C11_ClearedNameAnswersFalse ==
    (Quiet /\ last.op = "clear" /\ last.out = "ok") =>
        \A n \in RawNames : added[n] = "cleared" => mightExist(n) = "false"

\* C11 (amended): after addUsername(n) and a completed clear(), the filter does
\* not hold n and mightExist(n) throws until an initialize() completes; after
\* clear() and initialize() (refreshCache, POST /username/cache/clear)
\* mightExist(n) returns false, unless n is a sample username, seeded again.
C11_ClearedNameForgotten ==
    \A n \in RawNames :
        (Quiet /\ added[n] = "cleared") =>
            /\ (last.op = "clear" /\ last.out = "ok")
                  => /\ mightExist(n) = "error"
                     /\ ~BloomHas(bloomFilter, toLowerCase(n))
            /\ (last.op = "refreshCache" /\ last.out = "ok"
                  /\ \A i \in 1..Len(sampleUsernames) :
                         sampleUsernames[i] # toLowerCase(n))
                  => mightExist(n) = "false"

C11_Witness ==
    /\ Quiet
    /\ last.op = "clear"
    /\ last.out = "ok"
    /\ \E n \in RawNames : added[n] = "cleared" /\ mightExist(n) = "error"

\* C12: a clear() that completes leaves no metadata key and no elements key in
\* Redis, a new, empty filter in memory, and isInitialized false.
C12_ClearWipesEverything ==
    (Quiet /\ last.op = "clear" /\ last.out = "ok") =>
        /\ redisMeta = NoMeta
        /\ redisElements = {}
        /\ bloomFilter = ConfigFilter
        /\ ~isInitialized

\* a clear() of a filter that held an added name
C12_Witness ==
    /\ Quiet
    /\ last.op = "clear"
    /\ last.out = "ok"
    /\ \E n \in RawNames : added[n] = "cleared"
    /\ ~redisMeta.present
    /\ bloomFilter.bits = {}

\* the sample usernames, as a set
SampleSet == { sampleUsernames[i] : i \in 1..Len(sampleUsernames) }

\* the step that ends an initialize() which found no elements and seeded
SeedingEnds(s) ==
    /\ calls[s].op = "initialize"
    /\ calls[s].pc = "save_del"
    /\ calls'[s] = Idle
    /\ last'.op = "initialize"
    /\ last'.out = "ok"

\* C13: when an initialize() that found the store empty completes, isInitialized
\* is true, mightExist is true of every sample username, the metadata key
\* exists and <redisKey>:elements holds exactly the sample usernames.
C13_SeedingIsPersisted ==
    [][ \A s \in Slots :
          SeedingEnds(s) =>
              /\ isInitialized'
              /\ \A n \in SampleSet : BloomHas(bloomFilter', toLowerCase(n))
              /\ redisMeta'.present
              /\ redisElements' = SampleSet
      ]_vars

\* the step of rebuild() that reads the set and replaces the filter
Replays(s) == calls[s].pc = "rb_smembers" /\ calls'[s].pc = "save_set"

C15_RefreshIsClearThenInitialize ==
    /\ []((Quiet /\ last.op = "refreshCache" /\ last.out = "ok") =>
            /\ isInitialized
            /\ redisMeta.present
            /\ bloomFilter = BloomAddAll(ConfigFilter, SampleSet))
    /\ [][ \A s \in Slots :
             (calls[s].op = "refreshCache" /\ calls[s].pc = "init_scard"
                  /\ calls'[s].pc \in {"seed_sadd", "save_set"})
                 => (redisElements = {} /\ ~redisMeta.present)
         ]_vars

\* a refreshCache() of a filter that held an added name
C15_Witness ==
    /\ Quiet
    /\ last.op = "refreshCache"
    /\ last.out = "ok"
    /\ isInitialized
    /\ \E n \in RawNames : added[n] = "cleared" /\ mightExist(n) = "false"
    /\ \A n \in SampleSet : mightExist(n) = "true"

\* a validateCache() returns, nothing having changed the set since it began
Validated(s) ==
    /\ calls[s].op = "validateCache"
    /\ calls[s].clean
    /\ calls'[s] = Idle

KeysDisagree == redisMeta.present # (redisElements # {})
CountsDisagree ==
    \/ Cardinality(redisElements) - BloomLength(bloomFilter) > tolerance
    \/ BloomLength(bloomFilter) - Cardinality(redisElements) > tolerance

C17_ShadowSetInvariant ==
    (Quiet /\ last.op \in {"initialize", "addUsername", "rebuild", "refreshCache"}
           /\ last.out = "ok") =>
        /\ \A n \in RawNames : added[n] = "live" => toLowerCase(n) \in redisElements
        /\ last.op = "refreshCache" => SampleSet \subseteq redisElements

\* the step at which the call in slot s replaces this.bloomFilter under the
\* callers of mightExist: the first line of refreshCache's clear, and rebuild's
\* new filter with its replay
Publishes(s) ==
    \/ calls[s] = Idle /\ calls'[s].op = "refreshCache"
    \/ calls[s].op = "rebuild" /\ calls[s].pc = "rb_smembers"
                               /\ calls'[s].pc = "save_set"

\* the filter the call ends with: the seeded one, or the replay of the set read
NewEngine(s) ==
    IF calls'[s].op = "refreshCache"
    THEN BloomAddAll(ConfigFilter, SampleSet)
    ELSE BloomAddAll(ConfigFilter, redisElements)

\* C18: when rebuild() or refreshCache() replaces the filter while mightExist
\* answers (isInitialized is true), the filter callers then read is the one they
\* read before or the one the call ends with, never an empty or half-filled one.
C18_AtomicEnginePublication ==
    [][ \A s \in Slots :
          (Publishes(s) /\ isInitialized') =>
              bloomFilter' \in {bloomFilter, NewEngine(s)} ]_vars

\* the addUsername call in slot s begins while the one in slot t, begun with no
\* clear, rebuild, refreshCache or initialize beside it, is still in flight
Overlaps(s, t) ==
    /\ s # t
    /\ calls[t].op = "addUsername"
    /\ calls[t].clean
    /\ calls[s] = Idle
    /\ calls'[s].op = "addUsername"
    /\ calls'[s].clean

\* C19: two addUsername calls that overlap on a Ready controller leave the
\* filter that either order of the two, one after the other, leaves: from any
\* filter the two orders give the same filter; the call that begins second adds
\* its name to the filter that holds the first one's; no later step of either
\* call changes the filter; and when both have completed mightExist answers
\* true for both names.
C19_ConcurrentAddsCommute ==
    /\ [](\A a, b \in LowerNames :
             BloomAdd(BloomAdd(bloomFilter, a), b) = BloomAdd(BloomAdd(bloomFilter, b), a))
    /\ [][ \A s, t \in Slots : Overlaps(s, t) =>
              /\ bloomFilter' = BloomAdd(bloomFilter, toLowerCase(calls'[s].arg))
              /\ BloomHas(bloomFilter', toLowerCase(calls[t].arg))
              /\ BloomHas(bloomFilter', toLowerCase(calls'[s].arg)) ]_vars
    /\ [][ \A s \in Slots :
              (calls[s].op = "addUsername" /\ calls[s].clean /\ calls'[s] # calls[s]
                   /\ (calls'[s] = Idle \/ calls'[s].clean))
                  => bloomFilter' = bloomFilter ]_vars
    /\ [](\A a, b \in RawNames :
             (Quiet /\ added[a] = "live" /\ added[b] = "live")
                 => (mightExist(a) = "true" /\ mightExist(b) = "true"))

\* the first of two overlapping addUsername calls has completed and the second,
\* of another name, is at its last Redis command
C19_Witness ==
    /\ ~sequential
    /\ calls[1] = Idle
    /\ calls[2].op = "addUsername"
    /\ calls[2].clean
    /\ calls[2].pc = "save_del"
    /\ \E a \in RawNames :
          /\ toLowerCase(a) # toLowerCase(calls[2].arg)
          /\ added[a] = "live"
          /\ mightExist(a) = "true"
    /\ mightExist(calls[2].arg) = "true"

\* a Redis command of the addUsername call in slot s fails
AddFails(s) ==
    /\ calls[s].op = "addUsername"
    /\ calls[s].clean
    /\ ~redisUp
    /\ calls'[s] = Idle

\* C20: when a Redis command of addUsername(n) fails, the call ends there with
\* an error (POST /username/add answers 500), sends no further command and
\* leaves the filter with n in it; mightExist(n) answers true from then on, as
\* long as the filter is not replaced.
C20_AddFailureSemantics ==
    /\ [][ \A s \in Slots : AddFails(s) =>
              /\ last'.op = "addUsername"
              /\ last'.out = "error"
              /\ usernameAddStatus(last'.out) = 500
              /\ bloomFilter' = bloomFilter
              /\ redisMeta' = redisMeta
              /\ redisElements' = redisElements
              /\ isInitialized'
              /\ BloomHas(bloomFilter', toLowerCase(calls[s].arg)) ]_vars
    /\ [](\A n \in RawNames : added[n] = "failed" => mightExist(n) = "true")

\* an addUsername failed, another call has completed since, and the name is
\* still in the filter and not in the shadow set
C20_Witness ==
    /\ Quiet
    /\ \E n \in RawNames :
          /\ added[n] = "failed"
          /\ mightExist(n) = "true"
          /\ toLowerCase(n) \notin redisElements
          /\ last.out = "ok"
          /\ last.op = "addUsername"
          /\ toLowerCase(last.arg) # toLowerCase(n)

\* the clear() call in slot s ends
ClearEnds(s) ==
    /\ calls[s].op = "clear"
    /\ calls'[s] = Idle

\* C21: a clear() one of whose two del commands fails ends with that failure:
\* whenever clear() ends and the metadata key or the elements key is still
\* there, or Redis did not answer its command, the caller gets an error.
C21_ClearFailsLoudly ==
    [][ \A s \in Slots : ClearEnds(s) =>
          /\ (redisMeta'.present \/ redisElements' # {}) => last'.out = "error"
          /\ ~redisUp => last'.out = "error"
          /\ last'.op = "clear" ]_vars

\* a clear() that failed and left the elements key in Redis, without metadata
C21_Witness ==
    /\ Quiet
    /\ last.op = "clear"
    /\ last.out = "error"
    /\ ~redisMeta.present
    /\ redisElements # {}

\* C22: every filter the process builds (constructor, loadFromRedis, rebuild,
\* clear) has the size m and the number of hash functions k of the configured
\* capacity and error rate, whatever the stored metadata says.
C22_ParameterConsistency ==
    /\ bloomFilter.size = optimalSize(Config.capacity, Config.errorRate)
    /\ bloomFilter.nbHashes = optimalHashes(bloomFilter.size, Config.capacity)

\* C23: with capacity 10000 and error rate 0.01 the formulas give m = 95851 and
\* k = 7, and every filter the controller builds has 95851 bits and 7 hash
\* functions.
C23_ConfiguredParameters ==
    /\ Config = [capacity |-> 10000, errorRate |-> 10]
    /\ optimalSize(Config.capacity, Config.errorRate) = 95851
    /\ optimalHashes(95851, Config.capacity) = 7
    /\ bloomFilter.size = 95851
    /\ bloomFilter.nbHashes = 7

\* the filter in use after the start-up seeding and a completed addUsername
C23_Witness ==
    /\ isInitialized
    /\ bloomFilter.size = 95851
    /\ bloomFilter.nbHashes = 7
    /\ bloomFilter.bits # {}
    /\ \E n \in RawNames : added[n] = "live"

\* a step of an initialize() call made while the controller is Ready
ReadyInitializeStep(s) ==
    /\ calls[s].op = "initialize"
    /\ isInitialized
    /\ serving'
    /\ calls'[s] # calls[s]

\* C24: initialize() on a controller that is already Ready changes nothing: no
\* step of it changes the filter, the metadata key, the elements key or
\* isInitialized, and it ends without an error while Redis answers.
C24_InitializeOnReadyIsNoOp ==
    [][ \A s \in Slots : ReadyInitializeStep(s) =>
          /\ bloomFilter' = bloomFilter
          /\ redisMeta' = redisMeta
          /\ redisElements' = redisElements
          /\ isInitialized'
          /\ (calls'[s] = Idle /\ redisUp) => last'.out = "ok" ]_vars

\* a step of the validateCache() call in slot s: its call, one of its Redis
\* commands answering or failing, its return
ValidateCacheStep(s) ==
    \/ calls[s] = Idle /\ calls'[s].op = "validateCache"
    \/ /\ calls[s].op = "validateCache"
       /\ calls'[s] # calls[s]
       /\ (calls'[s] = Idle \/ calls'[s].clean = calls[s].clean)

\* C25: validateCache, whatever it returns, changes neither the filter, nor the
\* metadata key, nor the elements key, nor isInitialized (mightExist, an answer
\* computed from isInitialized and the filter, has no step that could).
C25_ReadOnlyDiagnostics ==
    [][ \A s \in Slots : ValidateCacheStep(s) =>
          /\ bloomFilter' = bloomFilter
          /\ redisMeta' = redisMeta
          /\ redisElements' = redisElements
          /\ isInitialized' = isInitialized ]_vars

\* a validateCache() that found nothing wrong has returned, over a store and a
\* filter that are not empty
C25_Witness ==
    /\ Quiet
    /\ last.op = "validateCache"
    /\ last.out = "valid"
    /\ redisMeta.present
    /\ redisElements # {}
    /\ bloomFilter.bits # {}
    /\ \E n \in RawNames : mightExist(n) = "true"

\* C26: when initialize() has completed successfully, every member of
\* <redisKey>:elements is found by mightExist, also when the metadata key is
\* absent; and the sample usernames are seeded only into an empty set.
C26_InitializeLoadsShadowSet ==
    /\ []((Quiet /\ last.op = "initialize" /\ last.out = "ok") =>
            /\ isInitialized
            /\ \A e \in redisElements : BloomHas(bloomFilter, e))
    /\ [][ \A s \in Slots :
             (calls[s].op = "initialize" /\ calls[s].pc = "init_scard"
                  /\ calls'[s].pc \in {"seed_sadd", "save_set"})
                 => redisElements = {} ]_vars

\* a step of the rebuild() call in slot s
RebuildStep(s) ==
    /\ calls[s].op = "rebuild"
    /\ calls'[s] # calls[s]
    /\ serving'

\* C27: rebuild() only reads <redisKey>:elements: no step of it changes the
\* set, which holds after rebuild() what it held before.
C27_RebuildLeavesShadowSet ==
    [][ \A s \in Slots : RebuildStep(s) => redisElements' = redisElements ]_vars

\* C28: a validateCache() that follows a successful initialize(), rebuild() or
\* refreshCache(), with nothing in between, no Redis failure and no change of
\* the store from outside, reports isValid == true.
C28_HealthyCacheIsValid ==
    [][ \A s \in Slots :
          (Validated(s) /\ last.op \in {"initialize", "rebuild", "refreshCache"}
                        /\ last.out = "ok")
              => last'.out = "valid" ]_vars

\* addUsername is called on a controller that is not initialized
UninitializedAdd ==
    /\ ~isInitialized
    /\ Quiet
    /\ \/ \E s \in Slots : calls'[s].op = "addUsername"
       \/ last' # last /\ last'.op = "addUsername"

\* C29: while isInitialized is false, mightExist throws for every name, and
\* addUsername throws at once, leaving the filter, the metadata key and the
\* elements key as they are and sending nothing to Redis.
C29_UninitializedGuard ==
    /\ [](~isInitialized => \A n \in RawNames : mightExist(n) = "error")
    /\ [][ UninitializedAdd =>
             /\ last'.op = "addUsername"
             /\ last'.out = "error"
             /\ calls' = calls
             /\ bloomFilter' = bloomFilter
             /\ redisMeta' = redisMeta
             /\ redisElements' = redisElements
             /\ ~isInitialized' ]_vars

\* after a clear(), an addUsername that was refused
C29_Witness ==
    /\ Quiet
    /\ serving
    /\ ~isInitialized
    /\ redisUp
    /\ last.op = "addUsername"
    /\ last.out = "error"
    /\ mightExist(last.arg) = "error"
    /\ ~BloomHas(bloomFilter, toLowerCase(last.arg))

\* C30: when a del of clear() has failed, the controller is not left Ready over
\* an emptied filter: either isInitialized is false, or mightExist still
\* answers true for every name added before the clear().
C30_FailedClearKeepsEngineOrState ==
    (Quiet /\ last.op = "clear" /\ last.out = "error") =>
        \/ ~isInitialized
        \/ \A n \in RawNames : added[n] = "cleared" => mightExist(n) = "true"

\* the step at which the page gets the reply of POST /username/validate, or
\* learns that none will come, and the same for GET /auth/check
ValidateStep == ui.stage = "validating" /\ ui'.stage \in {"checking", "done"}
CheckStep == ui.stage = "checking" /\ ui'.stage = "done"

\* the cache's answer for the candidate the page holds
CacheSays == mightExist(trim(toLowerCase(ui.name)))

\* C4: when the validate route answers and mightExist is false, the page
\* reports "available" and makes no call to the user store; when mightExist is
\* true it calls GET /auth/check, and the answer of userExists decides: true is
\* "taken", false is "available".
C4_TwoStageValidation ==
    [][ /\ (ValidateStep /\ ui'.validated.status = 200 /\ CacheSays = "false")
              => /\ ui'.stage = "done"
                 /\ ui'.isAvailable = "true"
                 /\ ui'.checked = NoReply
        /\ (ValidateStep /\ ui'.validated.status = 200 /\ CacheSays = "true")
              => /\ ui'.stage = "checking"
                 /\ ui'.isAvailable = ui.isAvailable
        /\ (CheckStep /\ ui'.checked.status = 200)
              => ui'.isAvailable =
                     IF userExists(users, ui.name) THEN "false" ELSE "true"
      ]_vars

\* a false positive resolved: the cache said "might exist", the store "no"
C4_Witness ==
    /\ ui.stage = "done"
    /\ ui.validated = [status |-> 200, body |-> "true"]
    /\ ui.checked = [status |-> 200, body |-> "false"]
    /\ ui.isAvailable = "true"
    /\ ~userExists(users, ui.name)

\* the request reached the validate route and mightExist threw; the follow-up
\* check got no answer
MightExistFailed ==
    ValidateStep /\ ui'.validated.status # 0 /\ CacheSays = "error"
CheckFailed == CheckStep /\ ui'.checked.status # 200

\* C5 (as claimed): whenever mightExist fails or the follow-up existence check
\* fails, the validate route answers with a server error and the page does not
\* report the username as available.
C5_FailureAnswersServerError ==
    [][ (MightExistFailed \/ CheckFailed)
            => (ui'.validated.status = 500 /\ ui'.isAvailable # "true") ]_vars

\* C5 (amended): when mightExist fails the validate route answers with a server
\* error and the page reports nothing; when the follow-up existence check fails
\* (the validate route has answered 200 by then) the page reports "taken".  In
\* neither case does it report "available".
C5_FailureNeverAvailable ==
    [][ /\ MightExistFailed
              => (ui'.validated.status = 500 /\ ui'.isAvailable = "null")
        /\ CheckFailed
              => (ui'.validated.status = 200 /\ ui'.isAvailable = "false")
      ]_vars

\* the validate route answered 500 while the cache was being refreshed
C5_Witness ==
    /\ ui.stage = "done"
    /\ ui.validated = [status |-> 500, body |-> "none"]
    /\ ui.isAvailable = "null"
    /\ ~isInitialized
    /\ serving

\* C6: a validation of n that starts after POST /auth/register answered 201 for
\* n never reports "available".
C6_RegistrationFeedsCache ==
    (ui.stage = "done" /\ ui.registered) => ui.isAvailable # "true"

\* C7: whenever a name is added to the filter, by the seeding loop or by an
\* addUsername call, the user store already contains it.
C7_CacheWithinUserStore ==
    [][ \A s \in Slots :
          /\ (calls'[s].pc = "seed_sadd" /\ calls'[s].i # calls[s].i)
                => userExists(users, sampleUsernames[calls'[s].i])
          /\ (calls'[s].pc = "add_sadd" /\ calls[s].pc # "add_sadd")
                => userExists(users, calls'[s].arg)
      ]_vars

\* C8: addUser answers false and leaves the stored user as it is when the
\* lower-cased name is present, and otherwise inserts it and answers true; of
\* the registration requests for one lower-cased name, in any order, exactly one
\* gets 201 (none when the name was there from the start).
C8_ExclusiveInsert ==
    /\ [](\A n \in DOMAIN created :
            /\ created[n] <= 1
            /\ created[n] = 1 <=> (n \in DOMAIN users /\ n \notin GeneratedNames))
    /\ [][ /\ \A n \in DOMAIN users :
                n \in DOMAIN users' /\ users'[n] = users[n]
           /\ (last' # last /\ last'.op = "register" /\ last'.out # "400")
                => LET n == toLowerCase(last'.arg)
                   IN  /\ n \in DOMAIN users'
                       /\ last'.out = (IF n \in DOMAIN users THEN "409" ELSE "201")
         ]_vars

\* two requests for one name in different case: the first created it, the
\* second got 409 and the first one's password stays
C8_Witness ==
    /\ last.op = "register"
    /\ last.out = "409"
    /\ last.arg = Zed
    /\ Created(zed) = 1
    /\ users[zed] = secret

C10_CaseInsensitive ==
    \A a \in RawNames, b \in RawNames :
        (added[a] = "live" /\ toLowerCase(a) = toLowerCase(b))
            => mightExist(b) = "true"

C10_Witness ==
    \E a \in RawNames, b \in RawNames :
        /\ a # b
        /\ toLowerCase(a) = toLowerCase(b)
        /\ added[a] = "live"
        /\ added[b] = "no"
        /\ mightExist(b) = "true"

====
